---- MODULE Spec2Model ----
(***************************************************************************)
(* A model of riirc, an IRC client: the line framer and the message codec  *)
(* of src/irc/codec.rs, the message parser, encoder and reply classifier   *)
(* of src/irc/proto.rs, and the client and the session of src/irc/mod.rs.  *)
(*                                                                         *)
(* Bytes are one-character strings, byte strings are sequences of them.    *)
(* Rust's Option is a sequence of length 0 (None) or 1 (Some).             *)
(***************************************************************************)
EXTENDS Integers, Sequences, FiniteSets, TLC

VARIABLES
    \* ---- Line Framer (CrLfDelimitedCodec under FramedRead) ----
    fsrc,       \* the BytesMut the framer decodes from
    fop,        \* the last operation on the framer: "init", "read", "decode"
    fpre,       \* fsrc as it was when decode was last entered
    fret,       \* what decode last returned: None or Some(frame)
    \* ---- Message codec (ServerMessageCodec under FramedRead) ----
    ssrc,       \* the BytesMut the codec decodes from
    sop,        \* the last operation on the codec: "init", "read", "decode"
    spre,       \* ssrc as it was when decode was last entered
    sret,       \* what decode last returned: None or Some(Message)
    spanic,     \* TRUE once decode has panicked (the thread unwinds)
    sreads,     \* the number of reads the socket has answered
    sinput,     \* every byte the socket has delivered, in order
    syield,     \* the Messages decode has yielded, in order
    \* ---- connect (the session) ----
    session,    \* "Connecting", "Registering", "Streaming" or "Closed"
    usr,        \* the User: nick, name and real_name (Options)
    regStep,    \* how many registration writes have returned Ok
    wire,       \* every byte the remote transport has accepted, in order
    forwarded,  \* the local input bytes handed to the transport
    aState,     \* sink.send_all(&mut stdin): "idle", "running", "ok", "err"
    bState,     \* stdout.send_all(&mut stream): "idle", "running", "ok", "err"
    aErr,       \* the error direction a ended with (Option)
    bErr,       \* the error direction b ended with (Option)
    firstErr,   \* the first error either direction raised (Option)
    rbuf,       \* the buffer of FramedRead over the socket's read half
    readable,   \* FramedRead's is_readable: decode has not yet returned None
    stdout,     \* the Messages the local output sink has accepted
    elog,       \* the read errors printed by eprintln and dropped
    result,     \* what connect returned (Option): <<"Ok", "">> or <<"Err", e>>
    panicked,   \* TRUE once connect has panicked
    events,     \* how many stream events the environment has produced
    \* ---- Client (Client::new, Client::send) ----
    queue,      \* the unbounded channel: Messages sent and not yet received
    rxAlive,    \* the channel's receiver (inside the ClientRx) is not dropped
    delivered,  \* the items Client.stream has yielded to its consumer
    sent,       \* the Messages the forward has handed to the transport sink
    probes,     \* the PINGs the filter has seen: params, and whether open
    acks,       \* the Messages the filter has enqueued
    sends,      \* how many times Client::send was called
    enqueued,   \* every Message the channel has accepted, in order
    inbound,    \* the items the framed socket has yielded to the filter,
                \* each with whether the channel was open when it came
    cuser,      \* Client.user: nick, name and real_name (Options)
    regSent,    \* how many sends of send_registration have returned Ok
    regRet,     \* what send_registration returned (Option)
    \* ---- Message Parser and Message Encoder (one line, there and back) ----
    pshape,     \* the sections the line was written from
    psrc,       \* the bytes of one line, as the socket delivers them
    pop,        \* the last step taken: "init", "parse", "encode", "reparse"
    parsed,     \* what ServerMessageCodec::decode made of psrc
    encoded,    \* the bytes BytesMut::from made of the Message (Option)
    reparsed,   \* what decode made of the encoded bytes (Option)
    \* ---- Reply Classifier ----
    rn,         \* the numeric n handed to Reply::from
    rop,        \* "init", or "from" once Reply::from was called
    rret        \* what Reply::from returned, or its panic

framerVars == <<fsrc, fop, fpre, fret>>
codecVars == <<ssrc, sop, spre, sret, spanic, sreads, sinput, syield>>
connVars ==
    <<session, usr, regStep, wire, forwarded, aState, bState, aErr, bErr,
      firstErr, rbuf, readable, stdout, elog, result, panicked, events>>

clientVars ==
    <<queue, rxAlive, delivered, sent, probes, acks, sends, enqueued,
      inbound, cuser, regSent, regRet>>

parserVars == <<pshape, psrc, pop, parsed, encoded, reparsed>>
replyVars == <<rn, rop, rret>>

vars ==
    <<framerVars, codecVars, connVars, clientVars, parserVars, replyVars>>

\* what each component leaves alone
notFramer == <<codecVars, connVars, clientVars, parserVars, replyVars>>
notCodec == <<framerVars, connVars, clientVars, parserVars, replyVars>>
notConn == <<framerVars, codecVars, clientVars, parserVars, replyVars>>
notClient == <<framerVars, codecVars, connVars, parserVars, replyVars>>
notParser == <<framerVars, codecVars, connVars, clientVars, replyVars>>
notReply == <<framerVars, codecVars, connVars, clientVars, parserVars>>

----------------------------------------------------------------------------
(* Bytes and byte strings *)

CR == "\r"
LF == "\n"
SP == " "
\* a byte that occurs in no UTF-8 encoding
XFF == "xFF"

None == <<>>
Some(v) == <<v>>

\* The state of each component after construction.
FramerIdle ==
    /\ fsrc = <<>>
    /\ fop = "init"
    /\ fpre = <<>>
    /\ fret = None

CodecIdle ==
    /\ ssrc = <<>>
    /\ sop = "init"
    /\ spre = <<>>
    /\ sret = None
    /\ spanic = FALSE
    /\ sreads = 0
    /\ sinput = <<>>
    /\ syield = <<>>

\* connect has not been called.
ConnIdle ==
    /\ session = "Connecting"
    /\ usr = [nick |-> <<"n">>, name |-> None, real_name |-> None]
    /\ regStep = 0
    /\ wire = <<>>
    /\ forwarded = <<>>
    /\ aState = "idle"
    /\ bState = "idle"
    /\ aErr = None
    /\ bErr = None
    /\ firstErr = None
    /\ rbuf = <<>>
    /\ readable = FALSE
    /\ stdout = <<>>
    /\ elog = <<>>
    /\ result = None
    /\ panicked = FALSE
    /\ events = 0

\* Client::new has returned.
ClientIdle ==
    /\ queue = <<>>
    /\ rxAlive = TRUE
    /\ delivered = <<>>
    /\ sent = <<>>
    /\ probes = <<>>
    /\ acks = <<>>
    /\ sends = 0
    /\ enqueued = <<>>
    /\ inbound = <<>>
    /\ cuser = [nick |-> <<"n">>, name |-> None, real_name |-> None]
    /\ regSent = 0
    /\ regRet = None

\* No line has been given to the parser.
ParserIdle ==
    /\ pshape = [tags |-> None, prefix |-> None, verb |-> <<>>,
                 middles |-> <<>>, trailing |-> None]
    /\ psrc = <<>>
    /\ pop = "init"
    /\ parsed = [panic |-> FALSE, ret |-> None, src |-> <<>>]
    /\ encoded = None
    /\ reparsed = None

\* Reply::from has not been called.
ReplyIdle ==
    /\ rn = 0
    /\ rop = "init"
    /\ rret = [panic |-> FALSE, v |-> <<>>]

Last(s) == s[Len(s)]
Front(s) == SubSeq(s, 1, Len(s) - 1)

\* The outcome of a call that may panic: a value, or the panic.
Ok(v) == [panic |-> FALSE, v |-> v]
Panicked == [panic |-> TRUE, v |-> <<>>]

\* &s[a..b], with Rust's 0-based, end-exclusive offsets
Slice(s, a, b) == SubSeq(s, a + 1, b)

\* str::starts_with
StartsWith(s, pat) == Len(s) >= Len(pat) /\ SubSeq(s, 1, Len(pat)) = pat

\* str::find: Some(0-based offset of the first match) or None
Find(s, pat) ==
    LET idx == {i \in 0..(Len(s) - Len(pat)) : Slice(s, i, i + Len(pat)) = pat}
    IN  IF idx = {} THEN None
        ELSE Some(CHOOSE i \in idx : \A j \in idx : i <= j)

\* char::is_whitespace, on the bytes of the model
IsWhitespace(c) == c \in {SP, CR, LF, "\t"}

\* str::trim_start
RECURSIVE TrimStart(_)
TrimStart(s) ==
    IF s # <<>> /\ IsWhitespace(s[1]) THEN TrimStart(Tail(s)) ELSE s

\* str::trim_start_matches(pat): every repeated leading match is removed;
\* an empty pattern removes nothing
RECURSIVE TrimStartMatches(_, _)
TrimStartMatches(s, pat) ==
    IF pat # <<>> /\ StartsWith(s, pat)
    THEN TrimStartMatches(SubSeq(s, Len(pat) + 1, Len(s)), pat)
    ELSE s

\* str::split on a one-byte separator: at least one piece, empty pieces kept
RECURSIVE Split(_, _)
Split(s, sep) ==
    LET i == Find(s, <<sep>>)
    IN  IF i = None THEN <<s>>
        ELSE <<Slice(s, 0, i[1])>> \o Split(Slice(s, i[1] + 1, Len(s)), sep)

\* String::from_utf8(..) is Ok
ValidUtf8(s) == \A i \in 1..Len(s) : s[i] # XFF

Digits == <<"0", "1", "2", "3", "4", "5", "6", "7", "8", "9">>
IsDigit(c) == \E i \in 1..Len(Digits) : Digits[i] = c
DigitOf(c) == (CHOOSE i \in 1..Len(Digits) : Digits[i] = c) - 1

RECURSIVE DecimalValue(_)
DecimalValue(d) ==
    IF d = <<>> THEN 0 ELSE 10 * DecimalValue(Front(d)) + DigitOf(Last(d))

U16Max == 65535

\* str::parse::<u16>: Some(n), or None for Err. One leading '+' is accepted,
\* a sign alone, an empty string, a non-digit or an overflow is an error.
ParseU16(s) ==
    IF s = <<>> THEN None
    ELSE LET digits == IF s[1] = "+" THEN Tail(s) ELSE s
         IN  IF digits = <<>> \/ \E i \in 1..Len(digits) : ~IsDigit(digits[i])
             THEN None
             ELSE IF DecimalValue(digits) > U16Max THEN None
                  ELSE Some(DecimalValue(digits))

----------------------------------------------------------------------------
(* Reply classification: src/irc/proto.rs:171-310 *)

\* enum InfoReply (#[repr(u16)], proto.rs:173-196)
InfoReply == {1, 2, 3, 4, 5, 10, 221} \cup (250..259) \cup {263, 265, 266, 267}

\* enum CommandReply (proto.rs:200-240)
CommandReply ==
    (300..305) \cup (311..314) \cup (317..319) \cup (321..324) \cup {328, 329}
        \cup (331..333) \cup {341} \cup (346..349) \cup {351, 353}
        \cup (366..369) \cup {372, 375, 376, 381, 382}

\* enum ErrorReply (proto.rs:244-289)
ErrorReply ==
    (400..405) \cup {421, 422, 432, 433} \cup (441..443) \cup {451, 461, 462}
        \cup {464, 465} \cup (471..475) \cup (481..483) \cup {491, 501, 502}
        \cup {691, 723, 902} \cup (904..907)

\* A classifier that files a numeric of no family under Error.
Reply_from_Lenient(n) ==
    IF n \in InfoReply THEN Ok([family |-> "Info", code |-> n])
    ELSE IF n \in CommandReply THEN Ok([family |-> "Command", code |-> n])
    ELSE Ok([family |-> "Error", code |-> n])

\* impl From<u16> for Reply: the first family holding n, in the order Info,
\* Command, Error; panic!("unknown reply") when none does.
Reply_from(n) ==
    IF n \in InfoReply THEN Ok([family |-> "Info", code |-> n])
    ELSE IF n \in CommandReply THEN Ok([family |-> "Command", code |-> n])
    ELSE IF n \in ErrorReply THEN Ok([family |-> "Error", code |-> n])
    ELSE Panicked

\* Command::Cmd(text)
Cmd(text) == [kind |-> "Cmd", text |-> text, family |-> "", code |-> 0]
\* Command::Response(reply)
Response(reply) ==
    [kind |-> "Response", text |-> <<>>, family |-> reply.family,
     code |-> reply.code]

\* struct Message (proto.rs:337-342)
Message(tags, prefix, command, params) ==
    [tags |-> tags, prefix |-> prefix, command |-> command, params |-> params]

\* Stream items: Result<Message, io::Error>
NoMessage == Message({}, None, Cmd(<<>>), <<>>)
OkItem(m) == [kind |-> "Ok", msg |-> m, err |-> ""]
ErrItem(e) == [kind |-> "Err", msg |-> NoMessage, err |-> e]

\* impl From<String> for Command (proto.rs:327-334)
Command_from(src) ==
    LET n == ParseU16(src)
    IN  IF n # None
        THEN LET r == Reply_from(n[1])
             IN  IF r.panic THEN Panicked ELSE Ok(Response(r.v))
        ELSE Ok(Cmd(src))

\* Reply::from called on its own, for every u16.
ReplyInit ==
    /\ FramerIdle /\ CodecIdle /\ ConnIdle /\ ClientIdle /\ ParserIdle
    /\ rn \in 0..U16Max
    /\ rop = "init"
    /\ rret = [panic |-> FALSE, v |-> <<>>]

ReplyFrom ==
    /\ rop = "init"
    /\ rret' = Reply_from(rn)
    /\ rop' = "from"
    /\ UNCHANGED rn
    /\ UNCHANGED notReply

ReplyNext == ReplyFrom

SpecReply == ReplyInit /\ [][ReplyNext]_vars

\* C17: Reply::from(n) is the Info variant with code n when n is in the
\* Info set, otherwise the Command variant when n is in the Command set,
\* otherwise the Error variant when n is in the Error set, and otherwise
\* it fails and produces no Reply; 001 is Info's Welcome.
C17_FirstFamilyWins ==
    rop = "from" =>
        /\ rn \in InfoReply => rret = Ok([family |-> "Info", code |-> rn])
        /\ (rn \notin InfoReply /\ rn \in CommandReply)
              => rret = Ok([family |-> "Command", code |-> rn])
        /\ (rn \notin InfoReply /\ rn \notin CommandReply
                /\ rn \in ErrorReply)
              => rret = Ok([family |-> "Error", code |-> rn])
        /\ (rn \notin InfoReply /\ rn \notin CommandReply
                /\ rn \notin ErrorReply)
              => (rret.panic /\ rret.v = <<>>)
        /\ rn = 1 => (rret.v.family = "Info" /\ rret.v.code = 1)

\* 999, which is in no family, was classified: the call failed.
C17_Witness ==
    /\ rop = "from"
    /\ rn = 999
    /\ rret.panic

----------------------------------------------------------------------------
(* Message Parser: impl From<BytesMut> for Message, src/irc/proto.rs:344-411 *)

TRUE_TEXT == <<"t", "r", "u", "e">>

\* HashMap::insert on a map held as a set of <<key, value>> pairs
TagInsert(m, k, v) == {e \in m : e[1] # k} \cup {<<k, v>>}

\* the loop over raw_tags (proto.rs:354-361)
RECURSIVE InsertTags(_, _)
InsertTags(m, raw_tags) ==
    IF raw_tags = <<>> THEN m
    ELSE LET _t == Split(Head(raw_tags), "=")
         IN  InsertTags(TagInsert(m, _t[1],
                                  IF Len(_t) > 1 THEN _t[2] ELSE TRUE_TEXT),
                        Tail(raw_tags))

NonEmpty(pieces) == SelectSeq(pieces, LAMBDA x : x # <<>>)

\* A parameter step that takes the text after the last ':' as trailing.
ExtractParams_LastColon(src_str) ==
    LET idx == {i \in 1..Len(src_str) : src_str[i] = ":"}
        colon == IF idx = {} THEN 0
                 ELSE CHOOSE i \in idx : \A j \in idx : j <= i
        s == IF colon # 0 THEN SubSeq(src_str, 1, colon - 1) ELSE src_str
        trailing == IF colon # 0
                    THEN SubSeq(src_str, colon + 1, Len(src_str))
                    ELSE <<>>
    IN  Append(NonEmpty(Split(s, SP)), trailing)

\* extract params (proto.rs:384-400): the text before the first ':' split
\* on spaces with empty pieces dropped, then the text after that ':'
ExtractParams(src_str) ==
    LET colon == Find(src_str, <<":">>)
        s == IF colon # None THEN Slice(src_str, 0, colon[1]) ELSE src_str
        t == IF colon # None
             THEN Slice(src_str, colon[1], Len(src_str))
             ELSE <<>>
        trailing == IF t = <<>> THEN <<>> ELSE Tail(t)
    IN  Append(NonEmpty(Split(s, SP)), trailing)

\* extract command (proto.rs:377-388), on the text left after the prefix
ExtractCommand(src_str, tags, prefix) ==
    LET found == Find(src_str, <<SP>>)
        next == IF found = None THEN Len(src_str) ELSE found[1]
        token == Slice(src_str, 0, next)
        command == Command_from(token)
        rest == TrimStart(TrimStartMatches(src_str, token))
    IN  IF command.panic THEN Panicked
        ELSE Ok([tags |-> tags, prefix |-> prefix, command |-> command.v,
                 params |-> ExtractParams(rest)])

\* extract prefix (proto.rs:365-378), on the text with leading whitespace
\* trimmed; find(" ").expect(..) panics when there is no space
ExtractPrefix(src_str, tags) ==
    IF StartsWith(src_str, <<":">>)
    THEN LET next == Find(src_str, <<SP>>)
         IN  IF next = None THEN Panicked
             ELSE ExtractCommand(
                      TrimStart(TrimStartMatches(src_str,
                                                 Slice(src_str, 0, next[1]))),
                      tags, Some(Slice(src_str, 1, next[1])))
    ELSE ExtractCommand(TrimStart(src_str), tags, None)

\* extract tags (proto.rs:349-362); the tag section stays in src_str, which
\* goes on to the prefix step whole (proto.rs:366)
Message_from(src) ==
    IF ~ValidUtf8(src) THEN Panicked
    ELSE IF StartsWith(src, <<"@">>)
    THEN LET next == Find(src, <<SP>>)
         IN  IF next = None THEN Panicked
             ELSE ExtractPrefix(
                      TrimStart(src),
                      InsertTags({}, Split(Slice(src, 1, next[1]), ";")))
    ELSE ExtractPrefix(TrimStart(src), {})

----------------------------------------------------------------------------
(* Message codec: ServerMessageCodec::decode, src/irc/codec.rs:48-65 *)

\* A decode that throws away a buffer in which it finds no whole line.
ServerMessageCodec_decode_Discard(src) ==
    IF src = <<>>
    THEN [panic |-> FALSE, ret |-> None, src |-> src]
    ELSE IF ~ValidUtf8(src)
    THEN [panic |-> TRUE, ret |-> None, src |-> src]
    ELSE LET i == Find(src, <<CR, LF>>)
         IN  IF i # None
             THEN LET m == Message_from(Slice(src, 0, i[1]))
                      rest == Slice(src, i[1] + 2, Len(src))
                  IN  IF m.panic
                      THEN [panic |-> TRUE, ret |-> None, src |-> rest]
                      ELSE [panic |-> FALSE, ret |-> Some(m.v), src |-> rest]
             ELSE [panic |-> FALSE, ret |-> None, src |-> <<>>]

\* A decode that hands out the whole buffer once it holds a line.
ServerMessageCodec_decode_TakesAll(src) ==
    IF src = <<>>
    THEN [panic |-> FALSE, ret |-> None, src |-> src]
    ELSE IF ~ValidUtf8(src)
    THEN [panic |-> TRUE, ret |-> None, src |-> src]
    ELSE LET i == Find(src, <<CR, LF>>)
         IN  IF i # None
             THEN LET m == Message_from(Slice(src, 0, i[1]))
                  IN  IF m.panic
                      THEN [panic |-> TRUE, ret |-> None, src |-> <<>>]
                      ELSE [panic |-> FALSE, ret |-> Some(m.v), src |-> <<>>]
             ELSE [panic |-> FALSE, ret |-> None, src |-> src]

\* What decode does to src: the value returned (or the panic) and src after.
ServerMessageCodec_decode(src) ==
    IF src = <<>>
    THEN [panic |-> FALSE, ret |-> None, src |-> src]
    ELSE IF ~ValidUtf8(src)
    THEN [panic |-> TRUE, ret |-> None, src |-> src]
    ELSE LET i == Find(src, <<CR, LF>>)
         IN  IF i # None
             THEN LET f == Slice(src, 0, i[1] + 2)
                      line == Slice(f, 0, Len(f) - Len(<<CR, LF>>))
                      m == Message_from(line)
                      rest == Slice(src, i[1] + 2, Len(src))
                  IN  IF m.panic
                      THEN [panic |-> TRUE, ret |-> None, src |-> rest]
                      ELSE [panic |-> FALSE, ret |-> Some(m.v), src |-> rest]
             ELSE [panic |-> FALSE, ret |-> None, src |-> src]

\* Lines and fragments the socket may deliver in one read.
LinePing == <<"P", "I", "N", "G", SP, ":", "t", CR, LF>>
LineWelcome == <<":", "s", SP, "0", "0", "1", SP, "n", SP, ":", "h", CR, LF>>
LineUnknownNumeric == <<"9", "9", "9", SP, "x", CR, LF>>
LineTagNoSpace == <<"@", "a", CR, LF>>
LinePrefixNoSpace == <<":", "p", CR, LF>>
LineBadUtf8 == <<XFF, CR, LF>>

CodecChunks ==
    {LinePing, LineWelcome, LineUnknownNumeric, LineTagNoSpace,
     LinePrefixNoSpace, LineBadUtf8, <<"P", "I">>, <<CR>>, <<LF>>}

\* How many reads the socket answers.
MaxCodecReads == 3

CodecInit ==
    CodecIdle /\ FramerIdle /\ ConnIdle /\ ClientIdle /\ ParserIdle /\ ReplyIdle

\* FramedRead's read step: the bytes read from the socket are appended.
CodecRead ==
    /\ ~spanic
    /\ sreads < MaxCodecReads
    /\ \E c \in CodecChunks :
          /\ ssrc' = ssrc \o c
          /\ sinput' = sinput \o c
    /\ sreads' = sreads + 1
    /\ sop' = "read"
    /\ UNCHANGED <<spre, sret, spanic, syield>>
    /\ UNCHANGED notCodec

\* FramedRead's decode step.
CodecDecode ==
    /\ ~spanic
    /\ LET r == ServerMessageCodec_decode(ssrc)
       IN  /\ ssrc' = r.src
           /\ sret' = r.ret
           /\ spanic' = r.panic
           /\ syield' = syield \o r.ret
    /\ spre' = ssrc
    /\ sop' = "decode"
    /\ UNCHANGED <<sreads, sinput>>
    /\ UNCHANGED notCodec

CodecNext == CodecRead \/ CodecDecode

SpecCodec == CodecInit /\ [][CodecNext]_vars

----------------------------------------------------------------------------
(* Message Encoder: impl From<Message> for BytesMut, src/irc/proto.rs:413-444 *)

\* The name of the variant with discriminant `code`, as #[derive(Debug)]
\* prints it (proto.rs:173-289).
VariantName(code) ==
    CASE code = 1 -> <<"W", "e", "l", "c", "o", "m", "e">>
      [] code = 2 -> <<"Y", "o", "u", "r", "H", "o", "s", "t">>
      [] code = 3 -> <<"C", "r", "e", "a", "t", "e", "d">>
      [] code = 4 -> <<"M", "y", "I", "n", "f", "o">>
      [] code = 5 -> <<"I", "S", "u", "p", "p", "o", "r", "t">>
      [] code = 10 -> <<"B", "o", "u", "n", "c", "e">>
      [] code = 221 -> <<"U", "M", "o", "d", "e", "I", "s">>
      [] code = 250 -> <<"S", "t", "a", "t", "s", "D", "L", "i", "n", "e">>
      [] code = 251 -> <<"L", "U", "s", "e", "r", "C", "l", "i", "e", "n", "t">>
      [] code = 252 -> <<"L", "U", "s", "e", "r", "O", "p">>
      [] code = 253 -> <<"L", "U", "s", "e", "r", "U", "n", "k", "n", "o", "w", "n">>
      [] code = 254 -> <<"L", "U", "s", "e", "r", "C", "h", "a", "n", "n", "e", "l", "s">>
      [] code = 255 -> <<"L", "U", "s", "e", "r", "M", "e">>
      [] code = 256 -> <<"L", "A", "d", "m", "i", "n", "M", "e">>
      [] code = 257 -> <<"A", "d", "m", "i", "n", "L", "o", "c", "1">>
      [] code = 258 -> <<"A", "d", "m", "i", "n", "L", "o", "c", "2">>
      [] code = 259 -> <<"A", "d", "m", "i", "n", "E", "m", "a", "i", "l">>
      [] code = 263 -> <<"T", "r", "y", "A", "g", "a", "i", "n">>
      [] code = 265 -> <<"L", "o", "c", "a", "l", "U", "s", "e", "r", "s">>
      [] code = 266 -> <<"G", "l", "o", "b", "a", "l", "U", "s", "e", "r", "s">>
      [] code = 267 -> <<"W", "h", "o", "I", "s", "C", "e", "r", "t", "F", "P">>
      [] code = 300 -> <<"N", "o", "n", "e">>
      [] code = 301 -> <<"A", "w", "a", "y">>
      [] code = 302 -> <<"U", "s", "e", "r", "H", "o", "s", "t">>
      [] code = 303 -> <<"I", "s", "O", "n">>
      [] code = 304 -> <<"U", "n", "A", "w", "a", "y">>
      [] code = 305 -> <<"N", "o", "w", "A", "w", "a", "y">>
      [] code = 311 -> <<"W", "h", "o", "I", "s", "U", "s", "e", "r">>
      [] code = 312 -> <<"W", "h", "o", "I", "s", "S", "e", "r", "v", "e", "r">>
      [] code = 313 -> <<"W", "h", "o", "I", "s", "O", "p", "e", "r", "a", "t", "o", "r">>
      [] code = 314 -> <<"W", "h", "o", "W", "a", "s", "U", "s", "e", "r">>
      [] code = 317 -> <<"W", "h", "o", "I", "s", "I", "d", "l", "e">>
      [] code = 318 -> <<"E", "n", "d", "O", "f", "W", "h", "o", "I", "s">>
      [] code = 319 -> <<"W", "h", "o", "I", "s", "C", "h", "a", "n", "n", "e", "l", "s">>
      [] code = 321 -> <<"L", "i", "s", "t", "S", "t", "a", "r", "t">>
      [] code = 322 -> <<"L", "i", "s", "t">>
      [] code = 323 -> <<"L", "i", "s", "t", "E", "n", "d">>
      [] code = 324 -> <<"C", "h", "a", "n", "n", "e", "l", "M", "o", "d", "e", "I", "s">>
      [] code = 328 -> <<"C", "h", "a", "n", "n", "e", "l", "U", "r", "l">>
      [] code = 329 -> <<"C", "r", "e", "a", "t", "i", "o", "n", "T", "i", "m", "e">>
      [] code = 331 -> <<"N", "o", "T", "o", "p", "i", "c">>
      [] code = 332 -> <<"T", "o", "p", "i", "c">>
      [] code = 333 -> <<"T", "o", "p", "i", "c", "W", "h", "o", "T", "i", "m", "e">>
      [] code = 341 -> <<"I", "n", "v", "i", "t", "i", "n", "g">>
      [] code = 346 -> <<"I", "n", "v", "i", "t", "e", "L", "i", "s", "t">>
      [] code = 347 -> <<"E", "n", "d", "O", "f", "I", "n", "v", "i", "t", "e", "L", "i", "s", "t">>
      [] code = 348 -> <<"E", "x", "c", "e", "p", "t", "L", "i", "s", "t">>
      [] code = 349 -> <<"E", "n", "d", "O", "f", "E", "x", "c", "e", "p", "t", "L", "i", "s", "t">>
      [] code = 351 -> <<"V", "e", "r", "s", "i", "o", "n">>
      [] code = 353 -> <<"N", "a", "m", "e", "R", "e", "p", "l", "y">>
      [] code = 366 -> <<"E", "n", "d", "O", "f", "N", "a", "m", "e", "s">>
      [] code = 367 -> <<"B", "a", "n", "L", "i", "s", "t">>
      [] code = 368 -> <<"E", "n", "d", "O", "f", "B", "a", "n", "L", "i", "s", "t">>
      [] code = 369 -> <<"E", "n", "d", "O", "f", "W", "h", "o", "W", "a", "s">>
      [] code = 372 -> <<"M", "O", "T", "D">>
      [] code = 375 -> <<"M", "O", "T", "D", "S", "t", "a", "r", "t">>
      [] code = 376 -> <<"E", "n", "d", "O", "f", "M", "O", "T", "D">>
      [] code = 381 -> <<"Y", "o", "u", "r", "e", "O", "p", "e", "r", "a", "t", "o", "r">>
      [] code = 382 -> <<"R", "e", "h", "a", "s", "h", "i", "n", "g">>
      [] code = 400 -> <<"U", "n", "k", "n", "o", "w", "n">>
      [] code = 401 -> <<"N", "o", "S", "u", "c", "h", "N", "i", "c", "k">>
      [] code = 402 -> <<"N", "o", "s", "u", "c", "h", "S", "e", "r", "v", "e", "r">>
      [] code = 403 -> <<"N", "o", "S", "u", "c", "h", "C", "h", "a", "n", "n", "e", "l">>
      [] code = 404 -> <<"C", "a", "n", "n", "o", "t", "S", "e", "n", "d", "T", "o", "C", "h", "a", "n", "n", "e", "l">>
      [] code = 405 -> <<"T", "o", "o", "M", "a", "n", "y", "C", "h", "a", "n", "n", "e", "l", "s">>
      [] code = 421 -> <<"U", "n", "k", "n", "o", "w", "n", "C", "o", "m", "m", "a", "n", "d">>
      [] code = 422 -> <<"N", "o", "M", "O", "T", "D">>
      [] code = 432 -> <<"E", "r", "r", "o", "n", "e", "o", "u", "s", "N", "i", "c", "k", "n", "a", "m", "e">>
      [] code = 433 -> <<"N", "i", "c", "k", "I", "n", "U", "s", "e">>
      [] code = 441 -> <<"U", "s", "e", "r", "N", "o", "t", "I", "n", "C", "h", "a", "n", "n", "e", "l">>
      [] code = 442 -> <<"N", "o", "t", "O", "n", "C", "h", "a", "n", "n", "e", "l">>
      [] code = 443 -> <<"U", "s", "e", "r", "O", "n", "c", "h", "a", "n", "n", "e", "l">>
      [] code = 451 -> <<"N", "o", "t", "R", "e", "g", "i", "s", "t", "e", "r", "e", "d">>
      [] code = 461 -> <<"N", "e", "e", "d", "M", "o", "r", "e", "P", "a", "r", "a", "m", "e", "t", "e", "r", "s">>
      [] code = 462 -> <<"A", "l", "r", "e", "a", "d", "R", "e", "g", "i", "s", "t", "e", "r", "e", "d">>
      [] code = 464 -> <<"P", "a", "s", "s", "w", "o", "r", "d", "M", "i", "s", "m", "a", "t", "c", "h">>
      [] code = 465 -> <<"Y", "o", "u", "r", "e", "B", "a", "n", "n", "e", "d", "C", "r", "e", "e", "p">>
      [] code = 471 -> <<"C", "h", "a", "n", "n", "e", "l", "I", "s", "F", "u", "l", "l">>
      [] code = 472 -> <<"U", "n", "k", "n", "o", "w", "n", "M", "o", "d", "e">>
      [] code = 473 -> <<"I", "n", "v", "i", "t", "e", "O", "n", "l", "y", "C", "h", "a", "n", "n", "e", "l">>
      [] code = 474 -> <<"B", "a", "n", "n", "e", "d", "F", "r", "o", "m", "C", "h", "a", "n", "n", "e", "l">>
      [] code = 475 -> <<"B", "a", "d", "C", "h", "a", "n", "n", "e", "l", "K", "e", "y">>
      [] code = 481 -> <<"N", "o", "P", "r", "i", "v", "i", "l", "e", "g", "e", "s">>
      [] code = 482 -> <<"C", "h", "a", "n", "O", "p", "P", "r", "i", "v", "s", "N", "e", "e", "d", "e", "d">>
      [] code = 483 -> <<"C", "a", "n", "t", "K", "i", "l", "l", "S", "e", "r", "v", "e", "r">>
      [] code = 491 -> <<"N", "o", "O", "p", "e", "r", "H", "o", "s", "t">>
      [] code = 501 -> <<"U", "M", "o", "d", "e", "U", "n", "k", "n", "o", "w", "n", "F", "l", "a", "g">>
      [] code = 502 -> <<"U", "s", "e", "r", "s", "D", "o", "n", "t", "M", "a", "t", "c", "h">>
      [] code = 691 -> <<"S", "t", "a", "r", "t", "T", "L", "S">>
      [] code = 723 -> <<"N", "o", "P", "r", "i", "v", "s">>
      [] code = 902 -> <<"N", "i", "c", "k", "L", "o", "c", "k", "e", "d">>
      [] code = 904 -> <<"S", "A", "S", "L", "F", "a", "i", "l">>
      [] code = 905 -> <<"S", "A", "S", "L", "T", "o", "o", "L", "o", "n", "g">>
      [] code = 906 -> <<"S", "A", "S", "L", "A", "b", "o", "r", "t", "e", "d">>
      [] code = 907 -> <<"S", "A", "S", "L", "A", "l", "r", "e", "a", "d", "y">>

\* format!("{:?}", n) for n: Reply: the family's variant around the name of
\* the reply's own variant, e.g. Info(Welcome)
Reply_fmt(reply) ==
    (CASE reply.family = "Info" -> <<"I", "n", "f", "o">>
       [] reply.family = "Command" -> <<"C", "o", "m", "m", "a", "n", "d">>
       [] reply.family = "Error" -> <<"E", "r", "r", "o", "r">>)
        \o <<"(">> \o VariantName(reply.code) \o <<")">>

\* [String]::join(sep)
RECURSIVE Join(_, _)
Join(pieces, sep) ==
    IF pieces = <<>> THEN <<>>
    ELSE IF Len(pieces) = 1 THEN pieces[1]
    ELSE pieces[1] \o sep \o Join(Tail(pieces), sep)

\* The orders in which msg.tags.iter() may visit a HashMap: every one.
IterOrders(tags) ==
    {o \in [1..Cardinality(tags) -> tags] :
        \A i, j \in 1..Cardinality(tags) : i # j => o[i] # o[j]}

\* impl From<Message> for BytesMut, with the order in which the HashMap of
\* tags is iterated. The tags as @k=v;k=v and a space, the prefix as :p and
\* a space, the command (a Reply through its Debug form), a space, the
\* params but the last joined by spaces, " :" and the last one, CR LF.
BytesMut_from(msg, order) ==
    LET tags == IF msg.tags # {}
                THEN <<"@">>
                     \o Join([i \in 1..Len(order) |->
                                 order[i][1] \o <<"=">> \o order[i][2]],
                             <<";">>)
                     \o <<SP>>
                ELSE <<>>
        prefix == IF msg.prefix # None
                  THEN <<":">> \o msg.prefix[1] \o <<SP>>
                  ELSE <<>>
        command == IF msg.command.kind = "Response"
                   THEN Reply_fmt(msg.command)
                   ELSE msg.command.text
        params == IF msg.params # <<>>
                  THEN Join(Front(msg.params), <<SP>>)
                       \o <<SP, ":">> \o Last(msg.params)
                  ELSE <<>>
    IN  tags \o prefix \o command \o <<SP>> \o params \o <<CR, LF>>

----------------------------------------------------------------------------
(* One line through the parser, the encoder and the parser again *)

\* How many entries a tag section has, and how many middle parameters a
\* line has, at most.
MaxTags == 2
MaxMiddles == 2

\* The sections lines are written from: tag entries (a flag, key=value, a
\* value that holds '='), a prefix, the command token (verbs and numerics),
\* middle parameters (one with ':' inside) and a trailing parameter.
TagEntries == {<<"f">>, <<"k", "=", "v">>, <<"k", "=", "a", "=", "b">>}
TagSections == UNION {[1..k -> TagEntries] : k \in 1..MaxTags}
Prefixes == {<<"n", "!", "u">>}
Verbs == {<<"J">>, <<"N", "O">>, <<"0", "0", "1">>, <<"9", "9", "9">>}
Middles == {<<"m">>, <<"#", ":", "c">>}
MiddleLists == UNION {[1..k -> Middles] : k \in 0..MaxMiddles}
Trailings == {<<>>, <<"t">>, <<"h", SP, ":", "w">>}

Shapes ==
    [tags : {None} \cup {Some(s) : s \in TagSections},
     prefix : {None} \cup {Some(p) : p \in Prefixes},
     verb : Verbs,
     middles : MiddleLists,
     trailing : {None} \cup {Some(x) : x \in Trailings}]

\* The line of a shape on the wire:
\* [@tags ][:prefix ]<command>[ middle ...][ :trailing] CR LF
WireRest(shape) ==
    (IF shape.prefix # None THEN <<":">> \o shape.prefix[1] \o <<SP>>
     ELSE <<>>)
        \o shape.verb
        \o (IF shape.middles # <<>>
            THEN <<SP>> \o Join(shape.middles, <<SP>>) ELSE <<>>)
        \o (IF shape.trailing # None
            THEN <<SP, ":">> \o shape.trailing[1] ELSE <<>>)

WireLine(shape) ==
    (IF shape.tags # None
     THEN <<"@">> \o Join(shape.tags[1], <<";">>) \o <<SP>> ELSE <<>>)
        \o WireRest(shape) \o <<CR, LF>>

ParserInit ==
    /\ FramerIdle /\ CodecIdle /\ ConnIdle /\ ClientIdle /\ ReplyIdle
    /\ pshape \in Shapes
    /\ psrc = WireLine(pshape)
    /\ pop = "init"
    /\ parsed = [panic |-> FALSE, ret |-> None, src |-> <<>>]
    /\ encoded = None
    /\ reparsed = None

\* ServerMessageCodec::decode on the bytes of the line
ParseLine ==
    /\ pop = "init"
    /\ parsed' = ServerMessageCodec_decode(psrc)
    /\ pop' = "parse"
    /\ UNCHANGED <<pshape, psrc, encoded, reparsed>>
    /\ UNCHANGED notParser

\* ServerMessageCodec::encode (codec.rs:70-74) on the Message parsed
EncodeMessage ==
    /\ pop = "parse"
    /\ ~parsed.panic
    /\ parsed.ret # None
    /\ \E order \in IterOrders(parsed.ret[1].tags) :
          encoded' = Some(BytesMut_from(parsed.ret[1], order))
    /\ pop' = "encode"
    /\ UNCHANGED <<pshape, psrc, parsed, reparsed>>
    /\ UNCHANGED notParser

\* ServerMessageCodec::decode on the bytes encoded
ReparseBytes ==
    /\ pop = "encode"
    /\ reparsed' = Some(ServerMessageCodec_decode(encoded[1]))
    /\ pop' = "reparse"
    /\ UNCHANGED <<pshape, psrc, parsed, encoded>>
    /\ UNCHANGED notParser

ParserNext == ParseLine \/ EncodeMessage \/ ReparseBytes

SpecParser == ParserInit /\ [][ParserNext]_vars

----------------------------------------------------------------------------
(* Claims about the Message Parser and the Message Encoder *)

\* the line has been parsed, and a Message came out
ParsedOk == pop # "init" /\ ~parsed.panic /\ parsed.ret # None

HasColon(s) == Find(s, <<":">>) # None

\* no ':' in any middle parameter of the line
PlainMiddles ==
    \A i \in 1..Len(pshape.middles) : ~HasColon(pshape.middles[i])

\* the command token of the line is a verb, not a numeric
TextualVerb == ParseU16(pshape.verb) = None

\* C12: every Message the parser produces has a non-empty params whose last
\* element is the trailing parameter; when the line has no ':' after its
\* command, that last element is empty and the elements before it are the
\* line's middle tokens.
C12_TrailingSlotAlways ==
    ParsedOk =>
        /\ parsed.ret[1].params # <<>>
        /\ (pshape.trailing = None /\ PlainMiddles)
              => /\ Last(parsed.ret[1].params) = <<>>
                 /\ Front(parsed.ret[1].params) = pshape.middles

\* the line is <VERB> m1 ... mk :<trailing>, with or without a prefix before
\* it: no tag section, a verb, middles free of ':', a trailing parameter
VerbLine ==
    /\ pshape.tags = None
    /\ TextualVerb
    /\ PlainMiddles
    /\ pshape.trailing # None

\* C13: a line <VERB> m1 ... mk :<trailing>, with or without :prefix before
\* it, parses to the command Cmd(<VERB>), the prefix without its ':' (or
\* none) and the params m1, ..., mk followed by everything after the first
\* ':' of the parameter section.
C13_VerbLineParsed ==
    (VerbLine /\ pop # "init") =>
        /\ ParsedOk
        /\ parsed.ret[1].command = Cmd(pshape.verb)
        /\ parsed.ret[1].prefix = pshape.prefix
        /\ parsed.ret[1].params = Append(pshape.middles, pshape.trailing[1])

\* A prefixed line with two middles and a trailing parameter that holds a
\* space and a further ':' has been parsed.
C13_Witness ==
    /\ VerbLine
    /\ pop = "parse"
    /\ pshape.prefix # None
    /\ Len(pshape.middles) = 2
    /\ HasColon(pshape.trailing[1])
    /\ Len(parsed.ret[1].params) = 3

\* C14: the tag section is consumed before the prefix and the command are
\* parsed: a line @<tags> <rest> parses to the prefix, the command and the
\* params that <rest> alone parses to, and its command is never the tag
\* text.
C14_TagsConsumed ==
    (pshape.tags # None /\ pop # "init") =>
        LET alone == Message_from(WireRest(pshape))
        IN  /\ parsed.panic = alone.panic
            /\ ~alone.panic =>
                  /\ parsed.ret # None
                  /\ parsed.ret[1].prefix = alone.v.prefix
                  /\ parsed.ret[1].command = alone.v.command
                  /\ parsed.ret[1].params = alone.v.params

\* the Message has been encoded
EncodedOk == pop \in {"encode", "reparse"}

\* the command token of the encoded bytes: the space-delimited token after
\* the tag section and the prefix, when the Message has them
EncodedCommandToken ==
    LET skip == (IF parsed.ret[1].tags # {} THEN 1 ELSE 0)
                    + (IF parsed.ret[1].prefix # None THEN 1 ELSE 0)
    IN  Split(encoded[1], SP)[skip + 1]

\* a numeric code in three decimal digits
Decimal3(code) ==
    <<Digits[(code \div 100) + 1], Digits[((code \div 10) % 10) + 1],
      Digits[(code % 10) + 1]>>

\* C15: a Message whose command is a numeric Reply is encoded with the
\* reply's decimal code as its command token (001 for the welcome reply),
\* not with a label of the variant.
C15_NumericEncodedAsCode ==
    (EncodedOk /\ parsed.ret[1].command.kind = "Response")
        => EncodedCommandToken = Decimal3(parsed.ret[1].command.code)

\* the line is :<prefix> <VERB> <middle> ... :<trailing>: no tag section, a
\* prefix, a verb, one or more middles, a trailing parameter
RoundTripLine ==
    /\ pshape.tags = None
    /\ pshape.prefix # None
    /\ TextualVerb
    /\ Len(pshape.middles) >= 1
    /\ pshape.trailing # None

\* C16: parsing a line :<prefix> <VERB> <middle> ... :<trailing> CR LF and
\* encoding the Message gives back the bytes of the line.
C16_BytesRoundTrip ==
    /\ (RoundTripLine /\ pop # "init") => ParsedOk
    /\ (RoundTripLine /\ EncodedOk) => encoded[1] = psrc

\* the key and the value a tag entry stands for: the text before its first
\* '=' and the text after it, or the entry and "true"
KeyOf(entry) ==
    LET i == Find(entry, <<"=">>)
    IN  IF i = None THEN entry ELSE Slice(entry, 0, i[1])

ValueOf(entry) ==
    LET i == Find(entry, <<"=">>)
    IN  IF i = None THEN TRUE_TEXT ELSE Slice(entry, i[1] + 1, Len(entry))

\* C18: the tags parsed from @e1;...;en hold, for every entry (the last
\* one of a key counts), the text before its first '=' as key with
\* everything after that '=' as value, or the entry itself with "true".
C18_TagsByFirstEquals ==
    (pshape.tags # None /\ ParsedOk) =>
        LET entries == pshape.tags[1]
        IN  \A i \in 1..Len(entries) :
                (\A j \in (i + 1)..Len(entries) :
                        KeyOf(entries[j]) # KeyOf(entries[i]))
                    => <<KeyOf(entries[i]), ValueOf(entries[i])>>
                           \in parsed.ret[1].tags

\* C19: for a Message parsed from a line with a textual verb (with or
\* without tags, prefix, middles and trailing), parsing the bytes it is
\* encoded to yields a Message with the same tags, prefix, command and
\* params.
C19_MessageRoundTrip ==
    (TextualVerb /\ pop = "reparse") =>
        /\ ~reparsed[1].panic
        /\ reparsed[1].ret # None
        /\ reparsed[1].ret[1] = parsed.ret[1]

----------------------------------------------------------------------------
(* Line Framer: CrLfDelimitedCodec::decode, src/irc/codec.rs:20-32 *)

\* A decode that scans for the first line-feed and splits there.
CrLfDelimitedCodec_decode_Scan(src) ==
    LET idx == {i \in 1..Len(src) : src[i] = LF}
    IN  IF idx = {}
        THEN [ret |-> None, src |-> src]
        ELSE LET i == CHOOSE j \in idx : \A k \in idx : j <= k
             IN  [ret |-> Some(SubSeq(src, 1, i - 1) \o <<CR, LF>>),
                  src |-> SubSeq(src, i + 1, Len(src))]

\* A decode that drains the buffer when no frame is ready.
CrLfDelimitedCodec_decode_Drain(src) ==
    IF src # <<>> /\ Last(src) = LF
    THEN [ret |-> Some(Front(src) \o <<CR, LF>>), src |-> <<>>]
    ELSE [ret |-> None, src |-> <<>>]

\* decode(&mut self, src): the pair of the returned value and src afterwards.
\* last_mut() is None on an empty buffer; otherwise the last byte, when it
\* is a line-feed, is overwritten by CR, LF is pushed, and split() hands the
\* whole buffer out, leaving src empty.
CrLfDelimitedCodec_decode(src) ==
    IF src # <<>>
    THEN IF Last(src) = LF
         THEN [ret |-> Some(Append([src EXCEPT ![Len(src)] = CR], LF)),
               src |-> <<>>]
         ELSE [ret |-> None, src |-> src]
    ELSE [ret |-> None, src |-> src]

\* Longest buffer the framer's reader lets accumulate.
MaxSrcLen == 4

FramerBytes == {"a", CR, LF}

FramerInit ==
    FramerIdle /\ CodecIdle /\ ConnIdle /\ ClientIdle /\ ParserIdle /\ ReplyIdle

\* FramedRead's read step: the bytes read from stdin are appended to src.
FramerRead ==
    /\ Len(fsrc) < MaxSrcLen
    /\ \E b \in FramerBytes : fsrc' = Append(fsrc, b)
    /\ fop' = "read"
    /\ UNCHANGED <<fpre, fret>>
    /\ UNCHANGED notFramer

\* FramedRead's decode step.
FramerDecode ==
    /\ LET r == CrLfDelimitedCodec_decode(fsrc)
       IN  /\ fsrc' = r.src
           /\ fret' = r.ret
    /\ fpre' = fsrc
    /\ fop' = "decode"
    /\ UNCHANGED notFramer

FramerNext == FramerRead \/ FramerDecode

SpecFramer == FramerInit /\ [][FramerNext]_vars

----------------------------------------------------------------------------
(* connect: the session, src/irc/mod.rs:80-153 *)

ANONYMOUS == <<"A", "n", "o", "n", "y", "m", "o", "u", "s">>
PING == <<"P", "I", "N", "G">>
PONG == <<"P", "O", "N", "G">>

\* the byte strings connect formats (mod.rs:92, 97, 102, 110)
CapLsLine == <<"C", "A", "P", SP, "L", "S", SP, "3", "0", "2", CR, LF>>
NickLine(nick) == <<"N", "I", "C", "K", SP>> \o nick \o <<CR, LF>>
UserLine(username, real_name) ==
    <<"U", "S", "E", "R", SP>> \o username \o <<SP, "0", SP, "*", SP, ":">>
        \o real_name \o <<CR, LF>>
CapEndLine == <<"C", "A", "P", SP, "E", "N", "D", CR, LF>>

\* opt.ok_or(err).unwrap(): Some(v) gives v; None gives Err(err), on which
\* unwrap panics (mod.rs:99-100)
OkOrUnwrap(opt, err) == IF opt # None THEN Ok(opt[1]) ELSE Panicked

\* A short count the socket may answer a write with.
ShortWrite == 4

\* AsyncWriteExt::write(buf) returns Ok(n) with n <= buf.len(): the socket
\* takes the whole buffer or only its first bytes.
WriteCounts(buf) == {Len(buf)} \cup {n \in {ShortWrite} : n < Len(buf)}

\* Result<(), Box<dyn Error>>
RetOk == <<"Ok", "">>
RetErr(e) == <<"Err", e>>

Users ==
    [nick : {<<"n">>}, name : {None, Some(<<"u">>)},
     real_name : {None, Some(<<"r">>)}]

\* what the local input stream may yield as one item
StdinItems == {<<"h", CR, LF>>}

\* what one read of the socket may append
RemoteChunks == {LinePing, LineWelcome, LineUnknownNumeric, <<"P", "I">>}

\* How many stream events (local items, socket reads, read errors) happen.
MaxEvents == 2

Init ==
    /\ FramerIdle
    /\ CodecIdle
    /\ ClientIdle
    /\ ParserIdle
    /\ ReplyIdle
    /\ session = "Connecting"
    /\ usr \in Users
    /\ regStep = 0
    /\ wire = <<>>
    /\ forwarded = <<>>
    /\ aState = "idle"
    /\ bState = "idle"
    /\ aErr = None
    /\ bErr = None
    /\ firstErr = None
    /\ rbuf = <<>>
    /\ readable = FALSE
    /\ stdout = <<>>
    /\ elog = <<>>
    /\ result = None
    /\ panicked = FALSE
    /\ events = 0

streamVars ==
    <<forwarded, aState, bState, aErr, bErr, firstErr, rbuf, readable, stdout,
      elog, events>>

\* TcpStream::connect(..).await? (mod.rs:87)
Connect ==
    /\ session = "Connecting"
    /\ \/ session' = "Registering" /\ UNCHANGED result
       \/ session' = "Closed" /\ result' = Some(RetErr("EConnect"))
    /\ UNCHANGED <<usr, regStep, wire, panicked, streamVars>>
    /\ UNCHANGED notConn

\* A registration write that goes on to the next line after an error.
RegWrite_IgnoresErr(buf, isLast) ==
    \/ /\ \E n \in WriteCounts(buf) : wire' = wire \o SubSeq(buf, 1, n)
       /\ regStep' = regStep + 1
       /\ session' = IF isLast THEN "Streaming" ELSE session
       /\ aState' = IF isLast THEN "running" ELSE aState
       /\ bState' = IF isLast THEN "running" ELSE bState
       /\ UNCHANGED <<result, panicked>>
    \/ /\ regStep' = regStep + 1
       /\ session' = IF isLast THEN "Streaming" ELSE session
       /\ aState' = IF isLast THEN "running" ELSE aState
       /\ bState' = IF isLast THEN "running" ELSE bState
       /\ UNCHANGED <<wire, result, panicked>>

\* stream.write(buf).await? while registering: Ok(n) puts the first n bytes
\* on the wire and connect goes on, whatever n is; Err returns from connect.
\* After the last write the two pumps are built and joined (mod.rs:113-149).
RegWrite(buf, isLast) ==
    \/ /\ \E n \in WriteCounts(buf) : wire' = wire \o SubSeq(buf, 1, n)
       /\ regStep' = regStep + 1
       /\ session' = IF isLast THEN "Streaming" ELSE session
       /\ aState' = IF isLast THEN "running" ELSE aState
       /\ bState' = IF isLast THEN "running" ELSE bState
       /\ UNCHANGED <<result, panicked>>
    \/ /\ session' = "Closed"
       /\ result' = Some(RetErr("EWrite"))
       /\ UNCHANGED <<wire, regStep, aState, bState, panicked>>

regFrame ==
    <<usr, forwarded, aErr, bErr, firstErr, rbuf, readable, stdout, elog,
      events>>

\* mod.rs:92
WriteCapLs ==
    /\ session = "Registering" /\ regStep = 0 /\ ~panicked
    /\ RegWrite(CapLsLine, FALSE)
    /\ UNCHANGED regFrame
    /\ UNCHANGED notConn

\* mod.rs:97
WriteNick ==
    /\ session = "Registering" /\ regStep = 1 /\ ~panicked
    /\ RegWrite(NickLine(usr.nick), FALSE)
    /\ UNCHANGED regFrame
    /\ UNCHANGED notConn

\* mod.rs:99-102
WriteUser ==
    /\ session = "Registering" /\ regStep = 2 /\ ~panicked
    /\ LET username == OkOrUnwrap(usr.name, usr.nick)
           real_name == OkOrUnwrap(usr.real_name, ANONYMOUS)
       IN  IF username.panic \/ real_name.panic
           THEN /\ panicked' = TRUE
                /\ UNCHANGED <<session, regStep, wire, aState, bState, result>>
           ELSE RegWrite(UserLine(username.v, real_name.v), FALSE)
    /\ UNCHANGED regFrame
    /\ UNCHANGED notConn

\* mod.rs:110-149
WriteCapEnd ==
    /\ session = "Registering" /\ regStep = 3 /\ ~panicked
    /\ RegWrite(CapEndLine, TRUE)
    /\ UNCHANGED regFrame
    /\ UNCHANGED notConn

Raise(e) == IF firstErr = None THEN Some(e) ELSE firstErr

Streaming == session = "Streaming" /\ ~panicked

\* sink.send_all(&mut stdin), one item: FramedWrite with BytesCodec writes
\* the bytes out whole, or the socket write fails and send_all returns Err.
StdinItem ==
    /\ Streaming /\ aState = "running" /\ events < MaxEvents
    /\ \E item \in StdinItems :
          \/ /\ wire' = wire \o item
             /\ forwarded' = forwarded \o item
             /\ UNCHANGED <<aState, aErr, firstErr>>
          \/ /\ aState' = "err"
             /\ aErr' = Some("EWrite")
             /\ firstErr' = Raise("EWrite")
             /\ UNCHANGED <<wire, forwarded>>
    /\ events' = events + 1
    /\ UNCHANGED <<session, usr, regStep, bState, bErr, rbuf, readable, stdout,
                   elog, result, panicked>>
    /\ UNCHANGED notConn

\* the local input stream yields Err(e): send_all returns it
StdinErr ==
    /\ Streaming /\ aState = "running"
    /\ aState' = "err"
    /\ aErr' = Some("EStdin")
    /\ firstErr' = Raise("EStdin")
    /\ UNCHANGED <<session, usr, regStep, wire, forwarded, bState, bErr, rbuf,
                   readable, stdout, elog, result, panicked, events>>
    /\ UNCHANGED notConn

\* the local input stream ends: send_all flushes and returns Ok; the sink
\* is not closed
StdinEnd ==
    /\ Streaming /\ aState = "running"
    /\ aState' = "ok"
    /\ UNCHANGED <<session, usr, regStep, wire, forwarded, aErr, bState, bErr,
                   firstErr, rbuf, readable, stdout, elog, result, panicked, events>>
    /\ UNCHANGED notConn

\* the socket's read half yields bytes. FramedRead reads only while
\* is_readable is false, and sets it after the read.
RemoteRead ==
    /\ Streaming /\ bState = "running" /\ events < MaxEvents
    /\ ~readable
    /\ \E c \in RemoteChunks : rbuf' = rbuf \o c
    /\ readable' = TRUE
    /\ events' = events + 1
    /\ UNCHANGED <<session, usr, regStep, wire, forwarded, aState, bState,
                   aErr, bErr, firstErr, stdout, elog, result, panicked>>
    /\ UNCHANGED notConn

\* the closure given to filter_map (mod.rs:118-146): what it yields and
\* what it prints for one item of the FramedRead
ConnectFilterMap(i) ==
    IF i.kind = "Ok"
    THEN [yield |-> Some(i.msg), log |-> None]
    ELSE [yield |-> None, log |-> Some(i.err)]

\* the socket's read half yields an error: FramedRead yields Err(e), the
\* closure prints it and yields nothing. Afterwards the FramedRead either
\* goes on reading or, in later tokio-util versions, ends.
RemoteReadErr ==
    /\ Streaming /\ bState = "running" /\ events < MaxEvents
    /\ ~readable
    /\ LET f == ConnectFilterMap(ErrItem("ERead"))
       IN  /\ elog' = elog \o f.log
           /\ IF f.yield # None
              THEN /\ bErr' = Some("ERead")
                   /\ firstErr' = Raise("ERead")
                   /\ bState' = "err"
              ELSE /\ UNCHANGED <<bErr, firstErr>>
                   /\ bState' \in {"running", "ok"}
    /\ events' = events + 1
    /\ UNCHANGED <<session, usr, regStep, wire, forwarded, aState, aErr, rbuf,
                   readable, stdout, result, panicked>>
    /\ UNCHANGED notConn

\* the socket's read half reaches end-of-stream: decode_eof reports bytes
\* left in the buffer as an error (printed and dropped), the stream ends
\* and send_all returns Ok
RemoteEof ==
    /\ Streaming /\ bState = "running"
    /\ ~readable
    /\ elog' = IF rbuf # <<>> THEN Append(elog, "EBytesRemaining") ELSE elog
    /\ bState' = "ok"
    /\ UNCHANGED <<session, usr, regStep, wire, forwarded, aState, aErr, bErr,
                   firstErr, rbuf, readable, stdout, result, panicked, events>>
    /\ UNCHANGED notConn

\* FramedRead calls decode while is_readable: None clears is_readable; a
\* Message goes through the closure and stdout.send_all hands it to the
\* local output sink, which takes it or fails; a panic unwinds connect.
RemoteDecode ==
    /\ Streaming /\ bState = "running"
    /\ readable
    /\ LET r == ServerMessageCodec_decode(rbuf)
       IN  IF r.panic
           THEN /\ panicked' = TRUE
                /\ UNCHANGED <<rbuf, readable, stdout, bState, bErr, firstErr>>
           ELSE IF r.ret = None
           THEN /\ readable' = FALSE
                /\ UNCHANGED <<rbuf, panicked, stdout, bState, bErr, firstErr>>
           ELSE LET f == ConnectFilterMap(OkItem(r.ret[1]))
                IN  /\ rbuf' = r.src
                    /\ UNCHANGED <<readable, panicked>>
                    /\ \/ /\ stdout' = stdout \o f.yield
                          /\ UNCHANGED <<bState, bErr, firstErr>>
                       \/ /\ f.yield # None
                          /\ bState' = "err"
                          /\ bErr' = Some("EStdout")
                          /\ firstErr' = Raise("EStdout")
                          /\ UNCHANGED stdout
    /\ UNCHANGED <<session, usr, regStep, wire, forwarded, aState, aErr, elog,
                   result, events>>
    /\ UNCHANGED notConn

\* future::join(..).await and the match on its pair (mod.rs:149-152): join
\* is ready when both send_all futures are; the first component's error is
\* tried first
JoinReturn ==
    /\ Streaming
    /\ aState \in {"ok", "err"}
    /\ bState \in {"ok", "err"}
    /\ result' = IF aErr # None THEN Some(RetErr(aErr[1]))
                 ELSE IF bErr # None THEN Some(RetErr(bErr[1]))
                 ELSE Some(RetOk)
    /\ session' = "Closed"
    /\ UNCHANGED <<usr, regStep, wire, panicked, streamVars>>
    /\ UNCHANGED notConn

Next ==
    \/ Connect
    \/ WriteCapLs
    \/ WriteNick
    \/ WriteUser
    \/ WriteCapEnd
    \/ StdinItem
    \/ StdinErr
    \/ StdinEnd
    \/ RemoteRead
    \/ RemoteReadErr
    \/ RemoteEof
    \/ RemoteDecode
    \/ JoinReturn

Spec == Init /\ [][Next]_vars

----------------------------------------------------------------------------
(* Claims about the session *)

IsPrefix(p, s) == Len(p) <= Len(s) /\ SubSeq(s, 1, Len(p)) = p

IsPing(m) == m.command = Cmd(PING)

\* the four bootstrap lines, with the defaults the User's absent fields get
Bootstrap(u) ==
    CapLsLine \o NickLine(u.nick)
        \o UserLine(IF u.name # None THEN u.name[1] ELSE u.nick,
                    IF u.real_name # None THEN u.real_name[1] ELSE ANONYMOUS)
        \o CapEndLine

\* the session has put its four bootstrap lines on the wire, whole
WholeBootstrap == IsPrefix(Bootstrap(usr), wire)

\* C2: while Streaming the remote-to-local direction runs through the
\* Keepalive Filter, so no PING decoded from the remote transport is ever
\* handed to the local output sink (it is answered by a PONG instead).
\* Stated for the sessions whose bootstrap went out whole.
C2_RemotePingFiltered ==
    WholeBootstrap => \A i \in 1..Len(stdout) : ~IsPing(stdout[i])

\* C3: the bytes on the remote transport always begin with the four
\* bootstrap lines, in order and once each: what has been written is a
\* prefix of those lines followed by the forwarded local input, and the
\* session streams only with all four lines written.
C3_BootstrapFirst ==
    /\ IsPrefix(wire, Bootstrap(usr) \o forwarded)
    /\ session = "Streaming" => IsPrefix(Bootstrap(usr), wire)

\* C4: an absent name or real_name never stops registration (the nick and
\* "Anonymous" stand in for them): connect does not abort while Registering.
C4_DefaultsApplied ==
    session = "Registering" => ~panicked

\* C5: the first error of either direction ends the session with that
\* error: once an error has been raised neither direction moves another
\* byte or message, and a Closed session returns the error raised first.
\* Stated for the sessions whose bootstrap went out whole.
C5_FirstErrorEndsSession ==
    /\ [][(WholeBootstrap /\ firstErr # None) =>
            (wire' = wire /\ rbuf' = rbuf /\ stdout' = stdout)]_vars
    /\ []((WholeBootstrap /\ session = "Closed" /\ firstErr # None)
            => result = Some(RetErr(firstErr[1])))

\* C6: once either half of the pipe has closed (the local input ended or
\* the remote transport reached end-of-stream) the session gets to Closed
\* with no further event on the other half: while it is still Streaming, a
\* step of its own (decoding what is buffered, returning from the join)
\* is enabled, so no pump waits on the other half.
\* Stated for the sessions whose bootstrap went out whole.
C6_CloseUnblocksOther ==
    (WholeBootstrap /\ Streaming /\ (aState = "ok" \/ bState = "ok"))
        => ENABLED (RemoteDecode \/ JoinReturn)

\* C7: a read error of the remote socket is never printed and dropped: it
\* ends the session, and connect returns an error.
\* Stated for the sessions whose bootstrap went out whole.
C7_ReadErrorSurfaced ==
    WholeBootstrap =>
        /\ \A i \in 1..Len(elog) : elog[i] # "ERead"
        /\ (session = "Closed" /\ elog # <<>>)
              => (result # None /\ result[1][1] = "Err")

\* the moves of the session: one state forward, or straight to Closed
SessionMoves ==
    {<<"Connecting", "Registering">>, <<"Registering", "Streaming">>,
     <<"Streaming", "Closed">>, <<"Connecting", "Closed">>,
     <<"Registering", "Closed">>}

\* C23: the session moves only along Connecting, Registering, Streaming,
\* Closed. A step of registration either puts bytes of its line on the
\* wire or, the write having failed, closes the session; streaming starts
\* only after the four writes. A session that closes before Streaming
\* (the transport not established, or a registration write failed) returns
\* that error, writes nothing more and has started no pump. Closed is
\* terminal: nothing of the session changes after it.
C23_SessionStateMachine ==
    /\ [][/\ session' # session => <<session, session'>> \in SessionMoves
          /\ regStep' # regStep => (regStep' = regStep + 1 /\ wire' # wire)
          /\ session' = "Streaming" => regStep' = 4
          /\ (session \in {"Connecting", "Registering"}
                  /\ session' = "Closed")
                => /\ result' \in {Some(RetErr("EConnect")),
                                   Some(RetErr("EWrite"))}
                   /\ wire' = wire
                   /\ regStep' = regStep
                   /\ aState' = "idle" /\ bState' = "idle"
          /\ session = "Closed" => connVars' = connVars]_vars
    /\ [](session = "Connecting" => (wire = <<>> /\ regStep = 0))
    /\ []((session = "Closed" /\ regStep < 4)
            => (result # None /\ result[1][1] = "Err"
                /\ forwarded = <<>> /\ stdout = <<>>))

\* The write of the USER line failed after two lines had gone out: the
\* session is Closed with that error.
C23_Witness ==
    /\ session = "Closed"
    /\ regStep = 2
    /\ wire # <<>>
    /\ result = Some(RetErr("EWrite"))

----------------------------------------------------------------------------
(* Client: Client::new and Client::send, src/irc/mod.rs:16-49 *)

\* A filter that answers with the probe's first parameter only.
KeepaliveFilter_FirstParam(message, open) ==
    IF message.kind = "Ok" /\ message.msg.command = Cmd(PING)
    THEN IF open
         THEN [enqueue |-> Some(Message({}, None, Command_from(PONG).v,
                                        SubSeq(message.msg.params, 1, 1))),
               yield |-> None]
         ELSE [enqueue |-> None, yield |-> Some(ErrItem("SendError"))]
    ELSE [enqueue |-> None, yield |-> Some(message)]

\* A filter that swallows the error items of the stream as well.
KeepaliveFilter_DropsErrors(message, open) ==
    IF message.kind = "Ok" /\ message.msg.command = Cmd(PING)
    THEN IF open
         THEN [enqueue |-> Some(Message({}, None, Command_from(PONG).v,
                                        message.msg.params)),
               yield |-> None]
         ELSE [enqueue |-> None, yield |-> Some(ErrItem("SendError"))]
    ELSE IF message.kind = "Ok"
    THEN [enqueue |-> None, yield |-> Some(message)]
    ELSE [enqueue |-> None, yield |-> None]

\* The closure given to filter_map and the future it returns (mod.rs:21-40),
\* for one item of the stream: what it sends on sender_clone and what it
\* yields. `open` says whether the channel's receiver is alive: a send on
\* an unbounded channel succeeds at once unless the receiver is gone.
KeepaliveFilter(message, open) ==
    IF message.kind = "Ok" /\ message.msg.command = Cmd(PING)
    THEN IF open
         THEN [enqueue |-> Some(Message({}, None, Command_from(PONG).v,
                                        message.msg.params)),
               yield |-> None]
         ELSE [enqueue |-> None, yield |-> Some(ErrItem("SendError"))]
    ELSE [enqueue |-> None, yield |-> Some(message)]

\* what the framed socket may yield to the filter
PingT == Message({}, None, Cmd(PING), <<<<"t">>>>)
PingST == Message({}, Some(<<"s">>), Cmd(PING), <<<<"s">>, <<"t">>>>)
Notice == Message({}, Some(<<"s">>), Cmd(<<"N">>), <<<<"n">>, <<"h">>>>)
InboundItems == {OkItem(PingT), OkItem(PingST), OkItem(Notice), ErrItem("EIo")}

\* what the owner of the Client may send
Outgoing == {Message({}, None, Cmd(<<"J">>), <<<<"#">>>>)}

\* How many items the socket yields, and how many sends the owner makes.
MaxInbound == 3
MaxSends == 1

ClientInit ==
    ClientIdle /\ FramerIdle /\ CodecIdle /\ ConnIdle /\ ParserIdle /\ ReplyIdle

\* the consumer polls Client.stream and the socket has one more item
FilterStep ==
    /\ Len(inbound) < MaxInbound
    /\ \E item \in InboundItems :
          LET f == KeepaliveFilter(item, rxAlive)
          IN  /\ inbound' = Append(inbound, [item |-> item,
                                            open |-> rxAlive])
              /\ queue' = queue \o f.enqueue
              /\ enqueued' = enqueued \o f.enqueue
              /\ acks' = acks \o f.enqueue
              /\ delivered' = delivered \o f.yield
              /\ probes' = IF item.kind = "Ok" /\ item.msg.command = Cmd(PING)
                           THEN Append(probes, [params |-> item.msg.params,
                                                open |-> rxAlive])
                           ELSE probes
    /\ UNCHANGED <<rxAlive, sent, sends, cuser, regSent, regRet>>
    /\ UNCHANGED notClient

\* Client::send (mod.rs:45-49): the Message is queued, or the send fails
\* because the receiver is gone
ClientSend ==
    /\ sends < MaxSends
    /\ \E m \in Outgoing :
          /\ queue' = IF rxAlive THEN Append(queue, m) ELSE queue
          /\ enqueued' = IF rxAlive THEN Append(enqueued, m) ELSE enqueued
    /\ sends' = sends + 1
    /\ UNCHANGED <<rxAlive, delivered, sent, probes, acks, inbound, cuser,
                   regSent, regRet>>
    /\ UNCHANGED notClient

\* A consumer that takes the newest queued Message first.
Forward_Newest ==
    /\ rxAlive
    /\ queue # <<>>
    /\ sent' = Append(sent, Last(queue))
    /\ queue' = Front(queue)
    /\ UNCHANGED <<rxAlive, delivered, probes, acks, sends, enqueued,
                   inbound, cuser, regSent, regRet>>
    /\ UNCHANGED notClient

\* receiver.map(Ok).forward(sink) (mod.rs:42): the single consumer takes
\* the oldest queued Message and hands it to the transport sink
Forward ==
    /\ rxAlive
    /\ queue # <<>>
    /\ sent' = Append(sent, Head(queue))
    /\ queue' = Tail(queue)
    /\ UNCHANGED <<rxAlive, delivered, probes, acks, sends, enqueued,
                   inbound, cuser, regSent, regRet>>
    /\ UNCHANGED notClient

\* the ClientRx future is dropped (by its owner, or after the sink failed):
\* the receiver goes, and with it what was queued
DropRx ==
    /\ rxAlive
    /\ rxAlive' = FALSE
    /\ queue' = <<>>
    /\ UNCHANGED <<delivered, sent, probes, acks, sends, enqueued, inbound,
                   cuser, regSent, regRet>>
    /\ UNCHANGED notClient

ClientNext == FilterStep \/ ClientSend \/ Forward \/ DropRx

SpecClient == ClientInit /\ [][ClientNext]_vars

----------------------------------------------------------------------------
(* Client::send_registration, src/irc/mod.rs:51-77 *)

\* opt.ok_or(err)?: Some(v) gives v; None makes the function return
\* Err(err) (mod.rs:68)
OkOrTry(opt, err) ==
    IF opt # None THEN [err |-> None, v |-> opt[1]]
    ELSE [err |-> Some(err), v |-> <<>>]

\* The k-th Message send_registration builds, or the error it returns
\* instead of building it.
RegistrationMessage(user, k) ==
    CASE k = 1 ->
            [err |-> None,
             v |-> Message({}, None, Command_from(<<"C", "A", "P">>).v,
                           <<<<"L", "S">>, <<"3", "0", "2">>>>)]
      [] k = 2 ->
            [err |-> None,
             v |-> Message({}, None, Command_from(<<"N", "I", "C", "K">>).v,
                           <<user.nick>>)]
      [] k = 3 ->
            LET name == OkOrTry(user.name, user.nick)
                real_name == OkOrTry(user.real_name, ANONYMOUS)
            IN  IF name.err # None THEN [err |-> name.err, v |-> NoMessage]
                ELSE IF real_name.err # None
                THEN [err |-> real_name.err, v |-> NoMessage]
                ELSE [err |-> None,
                      v |-> Message({}, None,
                                    Command_from(<<"U", "S", "E", "R">>).v,
                                    <<name.v, <<"0">>, <<"*">>,
                                      real_name.v>>)]
      [] k = 4 ->
            [err |-> None,
             v |-> Message({}, None, Command_from(<<"C", "A", "P">>).v,
                           <<<<"E", "N", "D">>>>)]

RegistrationInit ==
    /\ FramerIdle /\ CodecIdle /\ ConnIdle /\ ParserIdle /\ ReplyIdle
    /\ queue = <<>>
    /\ rxAlive = TRUE
    /\ delivered = <<>>
    /\ sent = <<>>
    /\ probes = <<>>
    /\ acks = <<>>
    /\ sends = 0
    /\ enqueued = <<>>
    /\ inbound = <<>>
    /\ cuser \in Users
    /\ regSent = 0
    /\ regRet = None

\* One self.send(..).await? of send_registration: the Message is built (or
\* the `?` on an absent name returns), and is queued (or the send fails
\* because the receiver is gone); after the fourth, Ok(()) is returned.
SendRegistration ==
    /\ regRet = None
    /\ LET m == RegistrationMessage(cuser, regSent + 1)
       IN  IF m.err # None
           THEN /\ regRet' = Some(RetErr(m.err[1]))
                /\ UNCHANGED <<queue, enqueued, regSent>>
           ELSE IF ~rxAlive
           THEN /\ regRet' = Some(RetErr(<<"SendError">>))
                /\ UNCHANGED <<queue, enqueued, regSent>>
           ELSE /\ queue' = Append(queue, m.v)
                /\ enqueued' = Append(enqueued, m.v)
                /\ regSent' = regSent + 1
                /\ regRet' = IF regSent + 1 = 4 THEN Some(RetOk) ELSE None
    /\ UNCHANGED <<rxAlive, delivered, sent, probes, acks, sends, inbound,
                   cuser>>
    /\ UNCHANGED notClient

RegistrationNext == SendRegistration \/ ClientSend \/ Forward \/ DropRx

SpecRegistration == RegistrationInit /\ [][RegistrationNext]_vars

\* the k-th bootstrap line for a user
BootstrapLine(user, k) ==
    CASE k = 1 -> CapLsLine
      [] k = 2 -> NickLine(user.nick)
      [] k = 3 -> UserLine(IF user.name # None THEN user.name[1]
                           ELSE user.nick,
                           IF user.real_name # None THEN user.real_name[1]
                           ELSE ANONYMOUS)
      [] k = 4 -> CapEndLine

\* the registration Messages handed to the transport sink so far
RegistrationSent == SelectSeq(sent, LAMBDA m : m \notin Outgoing)

\* C25: the Messages send_registration has enqueued are handed to the
\* transport in their order, and the bytes the encoder makes of the k-th
\* are the k-th bootstrap line: CAP LS 302, NICK <nick>,
\* USER <name> 0 * :<real_name>, CAP END, each with CR LF.
C25_RegistrationBytes ==
    \A k \in 1..Len(RegistrationSent) :
        BytesMut_from(RegistrationSent[k], <<>>) = BootstrapLine(cuser, k)

----------------------------------------------------------------------------
(* Claims about the Keepalive Filter *)

PongFor(p) == Message({}, None, Cmd(PONG), p.params)

NoPingDelivered ==
    \A i \in 1..Len(delivered) :
        ~(delivered[i].kind = "Ok" /\ IsPing(delivered[i].msg))

IsProbe(item) == item.kind = "Ok" /\ IsPing(item.msg)

\* the items that have come in, in order
InboundItemsSeen == [i \in 1..Len(inbound) |-> inbound[i].item]

RECURSIVE Deliveries(_)
Deliveries(seen) ==
    IF seen = <<>> THEN <<>>
    ELSE LET first == Head(seen)
         IN  (IF ~IsProbe(first.item) THEN <<first.item>>
              ELSE IF first.open THEN <<>>
              ELSE <<ErrItem("SendError")>>)
                 \o Deliveries(Tail(seen))

FailedEnqueue(i) == IsProbe(inbound[i].item) /\ ~inbound[i].open

\* C21: once the enqueue of an acknowledgement has failed the filter's
\* output has ended: what has been delivered is what the items before the
\* first such PING put there, and neither a message nor an error item has
\* been delivered for that PING or for anything that came after it.
C21_EnqueueFailureEndsStream ==
    \A i \in 1..Len(inbound) :
        (FailedEnqueue(i) /\ \A j \in 1..(i - 1) : ~FailedEnqueue(j))
            => delivered = Deliveries(SubSeq(inbound, 1, i - 1))

\* C22: whatever Client::send and the Keepalive Filter have enqueued is
\* handed to the transport sink in the order of enqueueing: what has been
\* sent is the beginning of what was enqueued, and while the receiver lives
\* the rest of it waits in the queue in the same order. So no
\* acknowledgement overtakes an earlier one or an earlier send.
C22_OutboundFifo ==
    /\ IsPrefix(sent, enqueued)
    /\ rxAlive => sent \o queue = enqueued

\* Both producers have enqueued, a send between two acknowledgements, and
\* all three Messages have been handed to the sink.
C22_Witness ==
    /\ Len(sent) = 3
    /\ sent[1].command = Cmd(PONG)
    /\ sent[2].command # Cmd(PONG)
    /\ sent[3].command = Cmd(PONG)
    /\ sent[1] # sent[3]

----------------------------------------------------------------------------
(* Claims about the message codec *)

\* C11: whenever decode is entered with a buffer of valid text that holds
\* no CR LF pair (the empty buffer and a buffer ending in a lone CR
\* included), it yields no Message and no error, does not panic, and
\* leaves the buffer as it was.
C11_IncompleteKeepsBuffer ==
    (sop = "decode" /\ ValidUtf8(spre) /\ Find(spre, <<CR, LF>>) = None)
        => (sret = None /\ ~spanic /\ ssrc = spre)

\* A decode was entered with a partial line that ends in a lone CR.
C11_Witness ==
    /\ sop = "decode"
    /\ Len(spre) >= 3
    /\ Last(spre) = CR
    /\ Find(spre, <<CR, LF>>) = None
    /\ sret = None

\* the bytes left after the first k lines, terminators included, are taken
\* from the front
RECURSIVE AfterLines(_, _)
AfterLines(bytes, k) ==
    IF k = 0 THEN bytes
    ELSE LET i == Find(bytes, <<CR, LF>>)
         IN  IF i = None THEN bytes
             ELSE AfterLines(Slice(bytes, i[1] + 2, Len(bytes)), k - 1)

\* the k-th CR LF terminated line of the bytes, without its terminator
NthLine(bytes, k) ==
    LET from == AfterLines(bytes, k - 1)
    IN  Slice(from, 0, Find(from, <<CR, LF>>)[1])

\* how many CR LF terminated lines the bytes hold
RECURSIVE LineCount(_)
LineCount(bytes) ==
    LET i == Find(bytes, <<CR, LF>>)
    IN  IF i = None THEN 0
        ELSE 1 + LineCount(Slice(bytes, i[1] + 2, Len(bytes)))

\* C24: over an accumulating buffer, the Messages decode has yielded are
\* the parses of the first CR LF terminated lines of everything the socket
\* delivered, in order, one per decode that returned a Message; what is
\* left in the buffer is the input behind those lines; and a decode that
\* returns a Message takes exactly the first line and its two-byte
\* terminator off the front, leaving the later bytes as they were.
C24_LinesInArrivalOrder ==
    /\ Len(syield) <= LineCount(sinput)
    /\ \A k \in 1..Len(syield) :
          Message_from(NthLine(sinput, k)) = Ok(syield[k])
    /\ ~spanic => ssrc = AfterLines(sinput, Len(syield))
    /\ (sop = "decode" /\ sret # None) =>
          /\ Find(spre, <<CR, LF>>) # None
          /\ Len(spre) = Find(spre, <<CR, LF>>)[1] + 2 + Len(ssrc)
          /\ spre = NthLine(spre, 1) \o <<CR, LF>> \o ssrc
          /\ sret = Some(Message_from(NthLine(spre, 1)).v)

\* Two lines and the beginning of a third came in before the first decode;
\* two decodes have yielded the two Messages and left the partial line.
C24_Witness ==
    /\ sop = "decode"
    /\ Len(syield) = 2
    /\ LineCount(spre) = 1
    /\ ssrc # <<>>
    /\ LineCount(ssrc) = 0

\* C8: a malformed frame is dropped or reported as a recoverable error:
\* decode never aborts the stream, so the lines after it are still decoded.
C8_DecodeFailuresIsolated == ~spanic

----------------------------------------------------------------------------
(* Claims about the Line Framer *)

C26_CrLfKeptAsIs ==
    (/\ fop = "decode"
     /\ Len(fpre) >= 2
     /\ fpre[Len(fpre) - 1] = CR
     /\ Last(fpre) = LF)
        => fret = Some(fpre)

====
